---- MODULE Spec2Model ----
(***************************************************************************)
(* Backward pagination of a room's event cache                             *)
(* (crates/matrix-sdk/src/event_cache/pagination.rs).                      *)
(*                                                                         *)
(* The room's timeline is a sequence of chunks, oldest first.  A chunk is  *)
(* either an Items chunk (events, oldest first) or a Gap chunk (one        *)
(* previous-batch token).  Chunks that are persisted but not loaded yet    *)
(* are kept in `lazy` (older than every chunk of `chunks`).  An event is   *)
(* represented by its event id; NoId is an event without a usable id.      *)
(***************************************************************************)
EXTENDS Integers, Sequences, FiniteSets, TLC

\* Bounds of the model.
MaxEv == 2          \* event ids are 1..MaxEv
MaxReq == 2         \* largest batch_size / num_requested_events a caller passes
MaxChunks == 3      \* sync and the server stop adding chunks at this length
MaxWait == 2        \* longest wait_time passed to get_or_wait_for_token, in ticks

Tasks == {"A", "B"}         \* concurrent callers of RoomPagination
Tokens == {"t1", "t2"}      \* previous-batch tokens
NoToken == "none"           \* Option<String>::None
NoId == 0
EventIds == 1..MaxEv

\* What the server and the sync send in a specification: event ids and tokens.
Wide == [events |-> EventIds, tokens |-> Tokens]
Narrow == [events |-> {1}, tokens |-> {"t1"}]
Mid == [events |-> EventIds, tokens |-> {"t1"}]

VARIABLES
    status,     \* RoomEventCacheInner::pagination_status
    chunks,     \* RoomEventCacheState::events (the in-memory linked chunk)
    lazy,       \* chunks of the store that precede chunks[1], not loaded yet
    waited,     \* RoomEventCacheState::waited_for_initial_prev_token
    pc,         \* where each task is
    call,       \* the public call a task runs: which one, its argument, events counted
    guard,      \* each task's ResetStatusOnDrop
    token,      \* prev_token of the round of each task
    before,     \* the status each round in flight replaced at the gate
    gap_chunk_id, \* the chunk of the request's gap, found under the write lock (0: None)
    reset_since,  \* has the room been reset since the task sent its request?
    ret,        \* what the round that ended in the last step returned, if one did
    tq,         \* the caller of get_or_wait_for_token: where it is, what it has
    tret        \* what get_or_wait_for_token returned in the last step, if it did

vars ==
    <<status, chunks, lazy, waited, pc, call, guard, token, before, gap_chunk_id,
      reset_since, ret, tq, tret>>

----------------------------------------------------------------------------
\* RoomPaginationStatus

Paginating == [tag |-> "Paginating", hit_timeline_start |-> FALSE]
Idle(b) == [tag |-> "Idle", hit_timeline_start |-> b]
IsIdle(s) == s.tag = "Idle"
Statuses == {Paginating, Idle(FALSE), Idle(TRUE)}

\* ResetStatusOnDrop { prev_status: Option<..> }; armed = prev_status.is_some()
Armed(s) == [armed |-> TRUE, prev_status |-> s]
Disarmed == [armed |-> FALSE, prev_status |-> Idle(FALSE)]

\* ResetStatusOnDrop::disarm
disarm(g) == Disarmed

\* Drop for ResetStatusOnDrop: the status left when guard g is dropped while
\* the status is s.
MutDropKeeps(g, s) == s
MutDropForgetsFlag(g, s) == IF g.armed THEN Idle(FALSE) ELSE s
drop(g, s) == IF g.armed THEN g.prev_status ELSE s

----------------------------------------------------------------------------
\* Chunks

ItemsChunk(evs) == [kind |-> "Items", tok |-> NoToken, items |-> evs]
GapChunk(t) == [kind |-> "Gap", tok |-> t, items |-> <<>>]
is_gap(c) == c.kind = "Gap"

Reverse(s) == [i \in 1..Len(s) |-> s[Len(s) + 1 - i]]
Range(s) == {s[i] : i \in 1..Len(s)}
RemoveAt(s, i) == SubSeq(s, 1, i - 1) \o SubSeq(s, i + 1, Len(s))
InsertAt(s, i, x) == SubSeq(s, 1, i - 1) \o <<x>> \o SubSeq(s, i, Len(s))

RECURSIVE AllEvents(_)
\* RoomEvents::events(): every event of the Items chunks, oldest first.
AllEvents(cs) ==
    IF cs = <<>> THEN <<>> ELSE Head(cs).items \o AllEvents(Tail(cs))

GapIndexes(cs) == {i \in 1..Len(cs) : is_gap(cs[i])}
NumGaps(cs) == Cardinality(GapIndexes(cs))
Max(S) == CHOOSE m \in S : \A x \in S : x <= m
Min(S) == CHOOSE m \in S : \A x \in S : m <= x

\* RoomEvents::events().next(): the position of the first event, as the index
\* of its chunk (it is item 0 of that chunk); 0 when there is no event.
first_event_pos(cs) ==
    LET S == {i \in 1..Len(cs) : cs[i].items # <<>>}
    IN IF S = {} THEN 0 ELSE Min(S)

\* RoomEvents::chunk_identifier with the predicate of the call site: the Gap
\* chunk holding `tok`, searched from the newest chunk; 0 for None.
chunk_identifier(cs, tok) ==
    LET S == {i \in GapIndexes(cs) : cs[i].tok = tok}
    IN IF S = {} THEN 0 ELSE Max(S)

\* Chunk::is_definitive_head for the first chunk in memory.
is_definitive_head(lz) == lz = <<>>

\* RoomEvents mutators used by the merge.
remove_gap_at(cs, i) == RemoveAt(cs, i)
replace_gap_at(cs, evs, i) == [cs EXCEPT ![i] = ItemsChunk(evs)]
insert_events_at(cs, evs, i) == [cs EXCEPT ![i].items = evs \o @]
insert_gap_at(cs, t, i) == InsertAt(cs, i, GapChunk(t))
push_gap(cs, t) == Append(cs, GapChunk(t))
push_events(cs, evs) ==
    IF evs = <<>> THEN cs
    ELSE IF cs # <<>> /\ ~is_gap(cs[Len(cs)])
         THEN [cs EXCEPT ![Len(cs)].items = @ \o evs]
         ELSE Append(cs, ItemsChunk(evs))

RECURSIVE SeqsUpTo(_, _)
\* The sequences over S of length at most n.
SeqsUpTo(S, n) ==
    IF n = 0 THEN {<<>>}
    ELSE LET shorter == SeqsUpTo(S, n - 1)
         IN shorter \cup {Append(q, x) : q \in shorter, x \in S}

\* Removes event id e wherever it is stored (the live-sync duplicate policy).
RemoveEvent(cs, e) ==
    [i \in 1..Len(cs) |-> [cs[i] EXCEPT !.items = SelectSeq(@, LAMBDA x : x # e)]]

----------------------------------------------------------------------------
\* Deduplication (RoomEventCacheState::collect_valid_and_duplicated_events)

RECURSIVE ValidEvents(_, _)
\* The events of a batch that have an id, each id once (first occurrence).
ValidEvents(batch, seen) ==
    IF batch = <<>> THEN <<>>
    ELSE IF Head(batch) = NoId \/ Head(batch) \in seen
         THEN ValidEvents(Tail(batch), seen)
         ELSE <<Head(batch)>> \o ValidEvents(Tail(batch), seen \cup {Head(batch)})

\* DeduplicationOutcome and the all_duplicates flag.
collect_valid_and_duplicated_events(cs, lz, batch) ==
    LET all == ValidEvents(batch, {})
        mem == Range(all) \cap Range(AllEvents(cs))
        sto == (Range(all) \ mem) \cap Range(AllEvents(lz))
    IN [all_events |-> all,
        in_memory_duplicated_event_ids |-> mem,
        in_store_duplicated_event_ids |-> sto,
        all_duplicates |-> Len(all) > 0 /\ Cardinality(mem) + Cardinality(sto) = Len(all)]

\* The event batches /messages may answer to a request with `limit`: at most
\* `limit` events of E, some maybe without an id, some maybe twice.  The merge
\* reads a batch through ValidEvents only, so one batch stands for all those
\* with the same valid events.
BatchesOf(E, limit) == {ValidEvents(b, {}) : b \in SeqsUpTo(E \cup {NoId}, limit)}
WideBatches == [limit \in 1..MaxReq |-> BatchesOf(Wide.events, limit)]
NarrowBatches == [limit \in 1..MaxReq |-> BatchesOf(Narrow.events, limit)]
Batches(U, limit) ==
    IF U.events = Wide.events THEN WideBatches[limit] ELSE NarrowBatches[limit]

----------------------------------------------------------------------------
\* RoomPagination::handle_network_pagination_result

\* The events kept from the batch: the duplicated ones are forgotten.
MutRetainAll(events, dups, all_duplicates) == events
MutRetainUnlessAllDuplicates(events, dups, all_duplicates) ==
    IF ~all_duplicates THEN events ELSE <<>>
retain_new_events(events, dups, all_duplicates) ==
    IF ~all_duplicates
    THEN SelectSeq(events, LAMBDA e : e # NoId /\ e \notin dups)
    ELSE <<>>

\* "First, insert events": the chunks after the insertion, and the position
\* (a chunk index, 0 for None) where a new gap would go.
MutInsertKeepsGap(cs, reversed_events, prev_gap_id, all_duplicates) ==
    IF prev_gap_id # 0
    THEN [cs |-> InsertAt(cs, prev_gap_id + 1, ItemsChunk(reversed_events)),
          pos |-> prev_gap_id + 1]
    ELSE [cs |-> push_events(cs, reversed_events), pos |-> 0]
insert_events(cs, reversed_events, prev_gap_id, all_duplicates) ==
    IF prev_gap_id # 0
    THEN IF all_duplicates
         THEN [cs |-> remove_gap_at(cs, prev_gap_id),
               pos |-> IF prev_gap_id < Len(cs) THEN prev_gap_id ELSE 0]
         ELSE [cs |-> replace_gap_at(cs, reversed_events, prev_gap_id),
               pos |-> prev_gap_id]
    ELSE IF first_event_pos(cs) # 0
         THEN [cs |-> insert_events_at(cs, reversed_events, first_event_pos(cs)),
               pos |-> first_event_pos(cs)]
         ELSE [cs |-> push_events(cs, reversed_events),
               pos |-> first_event_pos(push_events(cs, reversed_events))]

\* "And insert the new gap if needs be."
MutAlwaysStoresGap(cs, new_gap, insert_new_gap_pos, all_duplicates) ==
    IF new_gap # NoToken THEN push_gap(cs, new_gap) ELSE cs
MutGapAfterEvents(cs, new_gap, insert_new_gap_pos, all_duplicates) ==
    IF ~all_duplicates /\ new_gap # NoToken
    THEN IF insert_new_gap_pos # 0
         THEN insert_gap_at(cs, new_gap, insert_new_gap_pos + 1)
         ELSE push_gap(cs, new_gap)
    ELSE cs
insert_new_gap(cs, new_gap, insert_new_gap_pos, all_duplicates) ==
    IF ~all_duplicates /\ new_gap # NoToken
    THEN IF insert_new_gap_pos # 0
         THEN insert_gap_at(cs, new_gap, insert_new_gap_pos)
         ELSE push_gap(cs, new_gap)
    ELSE cs

\* The reached_start of the outcome, recomputed from the chunks after the merge;
\* net_reached_start is `new_gap.is_none()`.
MutTrustsNetwork(cs, lz, net_reached_start) == net_reached_start
recompute_reached_start(cs, lz, net_reached_start) ==
    /\ GapIndexes(cs) = {}
    /\ IF cs = <<>> THEN net_reached_start ELSE is_definitive_head(lz)

\* The whole merge: the new chunks and the BackPaginationOutcome.
handle_network_pagination_result(cs, lz, batch, new_gap, prev_gap_id) ==
    LET d == collect_valid_and_duplicated_events(cs, lz, batch)
        dups == d.in_memory_duplicated_event_ids \cup d.in_store_duplicated_event_ids
        events == retain_new_events(d.all_events, dups, d.all_duplicates)
        ins == insert_events(cs, Reverse(events), prev_gap_id, d.all_duplicates)
        after == insert_new_gap(ins.cs, new_gap, ins.pos, d.all_duplicates)
    IN [chunks |-> after,
        events |-> events,
        reached_start |-> recompute_reached_start(after, lz, new_gap = NoToken),
        all_duplicates |-> d.all_duplicates]

----------------------------------------------------------------------------
\* RoomEventCacheState::load_more_events_backwards: the storage-only step.

load_more_events_backwards(cs, lz, w) ==
    IF GapIndexes(cs) # {}
    THEN [outcome |-> "Gap", prev_token |-> cs[Max(GapIndexes(cs))].tok,
          events |-> <<>>, reached_start |-> FALSE, chunks |-> cs, lazy |-> lz]
    ELSE IF lz # <<>>
    THEN LET c == lz[Len(lz)]
             rest == SubSeq(lz, 1, Len(lz) - 1)
         IN IF is_gap(c)
            THEN [outcome |-> "Gap", prev_token |-> c.tok, events |-> <<>>,
                  reached_start |-> FALSE, chunks |-> <<c>> \o cs, lazy |-> rest]
            ELSE [outcome |-> "Events", prev_token |-> NoToken, events |-> c.items,
                  reached_start |-> rest = <<>>, chunks |-> <<c>> \o cs, lazy |-> rest]
    ELSE IF AllEvents(cs) # <<>>
    THEN [outcome |-> "StartOfTimeline", prev_token |-> NoToken, events |-> <<>>,
          reached_start |-> TRUE, chunks |-> cs, lazy |-> lz]
    ELSE IF ~w
    THEN [outcome |-> "WaitForInitialPrevToken", prev_token |-> NoToken,
          events |-> <<>>, reached_start |-> FALSE, chunks |-> cs, lazy |-> lz]
    ELSE [outcome |-> "Gap", prev_token |-> NoToken, events |-> <<>>,
          reached_start |-> FALSE, chunks |-> cs, lazy |-> lz]

----------------------------------------------------------------------------
\* Task-local state

\* `alone` is kept for run_backwards_until: no other writer (the sync, a reset)
\* has written to the room since the call began.
NoCall == [fn |-> "none", n |-> 0, got |-> 0, events |-> <<>>, alone |-> TRUE]
NoResponse == [chunk |-> <<>>, end |-> NoToken]
\* What the last step returned, when it ended a round of `task`: the kind of
\* result ("busy", "error", "soft" for Ok(None), "outcome", or "cancelled"), the
\* outcome and where it came from, whether the caller's loop returned it, and
\* what the round had: the status its gate replaced, where it was, its
\* prev_token and the response it merged; `all` is the event list the call
\* returns, when it returns one.  NoRet: no round ended in the last step.
NoRet ==
    [task |-> "none", kind |-> "none", via |-> "none", reached_start |-> FALSE,
     events |-> <<>>, all_duplicates |-> FALSE, returned |-> FALSE,
     before |-> Idle(FALSE), at |-> "none", prev_token |-> NoToken,
     response |-> NoResponse, all |-> <<>>]

\* A task between the status gate and the end of its round.
InFlight == {"load", "wait", "mark", "reload", "net", "lock", "merge"}

\* A task about to take the write lock and call load_more_events_backwards:
\* at the start of its round ("load"), or again after the wait ("reload").
AtLoad == {"load", "reload"}

\* A task about to run a round: the first of its call, the next one after an
\* outcome that was not enough ("gate"), or the one after Ok(None) ("restart").
AtGate == {"gate", "restart"}


\* wait_time: Option<Duration>, the duration in ticks.
NoWaitTime == [set |-> FALSE, d |-> 0]
SomeWait(d) == [set |-> TRUE, d |-> d]
WaitTimes == {NoWaitTime} \cup {SomeWait(d) : d \in 0..MaxWait}

\* PaginationToken
TokenNone == [tag |-> "None", token |-> NoToken]
HasMore(t) == [tag |-> "HasMore", token |-> t]
HitEnd == [tag |-> "HitEnd", token |-> NoToken]

\* The caller of get_or_wait_for_token: not in a call ("idle"), in
\* `timeout(notified(), wait_time)` ("waiting") or after it, before the write
\* lock ("relock"); the wait_time it passed, the ticks it has waited, whether
\* the notifier was notified during the wait, and the token of the last gap the
\* sync appended during the wait.
NoQuery ==
    [pc |-> "idle", wait_time |-> NoWaitTime, elapsed |-> 0, notified |-> FALSE,
     inserted |-> NoToken]

\* What the call returned in the last step, and how: the wait_time it was given,
\* whether it awaited the notifier, for how long, and what happened meanwhile.
NoTokenRet ==
    [result |-> [tag |-> "none", token |-> NoToken], wait_time |-> NoWaitTime,
     awaited |-> FALSE, elapsed |-> 0, notified |-> FALSE, inserted |-> NoToken]

\* The states the room's store and memory may be in when the cache is created:
\* a new room, or the newest chunk of a persisted timeline (a gap and an older
\* chunk are still in the store).
NewRoom == [chunks |-> <<ItemsChunk(<<>>)>>, lazy |-> <<>>]
RestoredRoom(older, newer) ==
    [chunks |-> <<ItemsChunk(newer)>>, lazy |-> <<ItemsChunk(older), GapChunk("t1")>>]

InitWith(timelines) ==
    /\ status = Idle(FALSE)
    /\ \E tl \in timelines : chunks = tl.chunks /\ lazy = tl.lazy
    /\ waited = FALSE
    /\ pc = [t \in Tasks |-> "idle"]
    /\ call = [t \in Tasks |-> NoCall]
    /\ guard = [t \in Tasks |-> Disarmed]
    /\ token = [t \in Tasks |-> NoToken]
    /\ before = [t \in Tasks |-> Idle(FALSE)]
    /\ gap_chunk_id = [t \in Tasks |-> 0]
    /\ reset_since = [t \in Tasks |-> FALSE]
    /\ ret = NoRet
    /\ tq = NoQuery
    /\ tret = NoTokenRet

----------------------------------------------------------------------------
\* RoomPagination::run_backwards_until / run_backwards_once / run_backwards_impl

\* The status gate: is a round admitted when the status it replaced is prev_status?
MutGateAdmitsAll(prev_status) == TRUE
gate_admits(prev_status) == IsIdle(prev_status)

\* The guard made once the gate is passed.
MutCapturesNewStatus(prev_status) == Armed(Paginating)
new_guard(prev_status) == Armed(prev_status)

\* The status a successful round leaves: the guard is disarmed, then the status
\* is set from the outcome.
MutGuardNotDisarmed(g, reached_start) == drop(g, Idle(reached_start))
MutStatusIgnoresOutcome(g, reached_start) == Idle(FALSE)
success_status(g, reached_start) == Idle(reached_start)

\* A step of a pagination caller, of the sync's events or of a reset: the
\* caller of get_or_wait_for_token stays where it is.
NoTokenStep == tq' = tq /\ tret' = NoTokenRet

\* events.len() after `events.extend(outcome.events)`, counted up to n.
extend(c, events) ==
    IF c.got + Len(events) >= c.n THEN c.n ELSE c.got + Len(events)

\* `events` after `events.extend(outcome.events)`; run_backwards_once returns
\* the outcome of its round as it is.
MutKeepsLastRound(c, events) == events
MutPrepends(c, events) == events \o c.events
accumulate(c, events) == c.events \o events

\* Where the caller's loop goes after a round that it does not return from.
next_round(kind) == IF kind = "soft" THEN "restart" ELSE "gate"

\* `self.run_backwards_impl(..).await?` in the caller's loop: does an Err of the
\* round end the call?
MutRetriesOnError(kind) == kind # "error"
returns_err(kind) == TRUE

\* Does the caller's loop return after a round that produced this outcome?
returns_outcome(c, reached_start, events) ==
    \/ c.fn = "once"
    \/ reached_start
    \/ extend(c, events) >= c.n

\* The end of a round of task t: the status it leaves, what run_backwards_impl
\* returns (r), and whether the caller's loop returns it or runs another round.
EndRound(t, new_status, r, returns) ==
    /\ status' = new_status
    /\ ret' = [r EXCEPT !.task = t, !.returned = returns, !.at = pc[t],
                        !.prev_token = token[t],
                        !.all = IF returns /\ r.kind = "outcome"
                                THEN accumulate(call[t], r.events) ELSE <<>>]
    /\ pc' = [pc EXCEPT ![t] = IF returns THEN "idle" ELSE next_round(r.kind)]
    /\ call' = [call EXCEPT ![t] =
                    IF returns THEN NoCall
                    ELSE IF r.kind = "outcome"
                         THEN [call[t] EXCEPT !.got = extend(call[t], r.events),
                                              !.events = accumulate(call[t], r.events)]
                    ELSE @]
    /\ guard' = [guard EXCEPT ![t] = Disarmed]
    /\ token' = [token EXCEPT ![t] = NoToken]
    /\ before' = [before EXCEPT ![t] = Idle(FALSE)]
    /\ gap_chunk_id' = [gap_chunk_id EXCEPT ![t] = 0]
    /\ reset_since' = [reset_since EXCEPT ![t] = FALSE]

\* Ok(Some(outcome))
Succeed(t, reached_start, events, via, all_duplicates, response) ==
    EndRound(t, success_status(guard[t], reached_start),
             [NoRet EXCEPT !.kind = "outcome", !.via = via,
                           !.reached_start = reached_start, !.events = events,
                           !.all_duplicates = all_duplicates,
                           !.before = before[t], !.response = response],
             returns_outcome(call[t], reached_start, events))

\* Err(..), Ok(None), or the future is dropped: the guard is dropped while armed.
GiveUp(t, kind, returns) ==
    EndRound(t, drop(guard[t], status),
             [NoRet EXCEPT !.kind = kind, !.before = before[t]], returns)

\* The lock of the room's state (RwLock<RoomEventCacheState>).  A step of the
\* model is what a task does from one suspension point to the next.  Does a
\* pagination task hold its write guard while it is suspended at position p,
\* and the caller of get_or_wait_for_token its read guard?  The guard of line 182
\* is dropped before the wait (189) and before the request (215); the guard of
\* line 283 is kept from the lookup of the gap to the end of the merge (307);
\* the read guard of line 469 ends with its scope (493).
MutGuardKeptForRequest(p) == p = "net"
MutGuardKeptForWait(p) == p = "wait"
MutGuardDroppedAfterLookup(p) == FALSE
state_guard_held(p) == p = "merge"
MutReadGuardKept(p) == p = "waiting"
read_guard_held(p) == FALSE

\* `self.inner.state.write().await` returns: nobody holds a guard of the lock.
write_lock_free ==
    /\ \A t \in Tasks : ~state_guard_held(pc[t])
    /\ ~read_guard_held(tq.pc)

\* `self.inner.state.read().await` returns: nobody holds a write guard.
read_lock_free == \A t \in Tasks : ~state_guard_held(pc[t])

\* A caller starts run_backwards_once(n) or run_backwards_until(n), one of F.
Call(t, F) ==
    /\ pc[t] = "idle"
    /\ \E fn \in F, n \in 1..MaxReq :
           call' = [call EXCEPT ![t] = [fn |-> fn, n |-> n, got |-> 0,
                                        events |-> <<>>, alone |-> TRUE]]
    /\ pc' = [pc EXCEPT ![t] = "gate"]
    /\ ret' = NoRet
    /\ UNCHANGED <<status, chunks, lazy, waited, guard, token, before, gap_chunk_id, reset_since>>
    /\ NoTokenStep

\* run_backwards_impl: `status_observable.set(Paginating)` and the check of the
\* previous status.
Gate(t) ==
    /\ pc[t] \in AtGate
    /\ IF gate_admits(status)
       THEN /\ status' = Paginating
            /\ guard' = [guard EXCEPT ![t] = new_guard(status)]
            /\ before' = [before EXCEPT ![t] = status]
            /\ pc' = [pc EXCEPT ![t] = "load"]
            /\ ret' = NoRet
            /\ UNCHANGED <<call, token, gap_chunk_id, reset_since>>
       ELSE EndRound(t, Paginating, [NoRet EXCEPT !.kind = "busy", !.before = status],
                     returns_err("busy"))
    /\ UNCHANGED <<chunks, lazy, waited>>
    /\ NoTokenStep

\* paginate_backwards_impl: the answers of the loader after which the round
\* goes to the network.
MutNetworkAtStart(outcome) == outcome \in {"Gap", "StartOfTimeline"}
MutNetworkAfterEvents(outcome) == outcome \in {"Gap", "Events"}
reaches_network(outcome) == outcome = "Gap"

\* paginate_backwards_impl: one turn of the loop, under the write lock.
Load(t) ==
    /\ pc[t] \in AtLoad
    /\ write_lock_free
    /\ LET l == load_more_events_backwards(chunks, lazy, waited)
       IN /\ chunks' = l.chunks
          /\ lazy' = l.lazy
          /\ waited' = waited
          /\ CASE l.outcome = "WaitForInitialPrevToken" ->
                    /\ pc' = [pc EXCEPT ![t] = "wait"]
                    /\ ret' = NoRet
                    /\ UNCHANGED <<status, call, guard, token, before, gap_chunk_id, reset_since>>
               [] reaches_network(l.outcome) ->
                    /\ pc' = [pc EXCEPT ![t] = "net"]
                    /\ token' = [token EXCEPT ![t] = l.prev_token]
                    /\ ret' = NoRet
                    /\ UNCHANGED <<status, call, guard, before, gap_chunk_id, reset_since>>
               [] l.outcome = "StartOfTimeline" ->
                    Succeed(t, TRUE, <<>>, "start", FALSE, NoResponse)
               [] l.outcome = "Events" ->
                    Succeed(t, l.reached_start, Reverse(l.events), "local", FALSE,
                            NoResponse)
    /\ NoTokenStep

\* load_more_events_backwards fails (the store): `?` ends the round.
LoadError(t) ==
    /\ pc[t] \in AtLoad
    /\ write_lock_free
    /\ GiveUp(t, "error", returns_err("error"))
    /\ UNCHANGED <<chunks, lazy, waited>>
    /\ NoTokenStep

\* The wait for the token notification ends (notified, or timed out).
WaitDone(t) ==
    /\ pc[t] = "wait"
    /\ pc' = [pc EXCEPT ![t] = "mark"]
    /\ ret' = NoRet
    /\ UNCHANGED <<status, chunks, lazy, waited, call, guard, token, before, gap_chunk_id, reset_since>>
    /\ NoTokenStep

\* `self.inner.state.write().await.waited_for_initial_prev_token = true; continue`
Mark(t) ==
    /\ pc[t] = "mark"
    /\ write_lock_free
    /\ waited' = TRUE
    /\ pc' = [pc EXCEPT ![t] = "reload"]
    /\ ret' = NoRet
    /\ UNCHANGED <<status, chunks, lazy, call, guard, token, before, gap_chunk_id, reset_since>>
    /\ NoTokenStep

\* paginate_backwards_with_network: the room is gone (the client shuts down).
RoomGone(t) ==
    /\ pc[t] = "net"
    /\ Succeed(t, FALSE, <<>>, "gone", FALSE, NoResponse)
    /\ UNCHANGED <<chunks, lazy, waited>>
    /\ NoTokenStep

\* room.messages(options) fails.
NetError(t) ==
    /\ pc[t] = "net"
    /\ GiveUp(t, "error", returns_err("error"))
    /\ UNCHANGED <<chunks, lazy, waited>>
    /\ NoTokenStep

\* The responses /messages may give to a request with `limit` while the room's
\* chunks are cs: at most `limit` events, newest first, and maybe a token to go on.
Responses(U, limit, cs) ==
    {[chunk |-> batch, end |-> end] :
        batch \in Batches(U, limit),
        end \in {NoToken} \cup (IF Len(cs) < MaxChunks THEN U.tokens ELSE {})}

\* room.messages(options) answers; the task now waits for the write lock.  What
\* the answer holds does not depend on the room's state: it is drawn when the
\* task merges it.
NetResponse(t) ==
    /\ pc[t] = "net"
    /\ pc' = [pc EXCEPT ![t] = "lock"]
    /\ ret' = NoRet
    /\ UNCHANGED <<status, chunks, lazy, waited, call, guard, token, before, gap_chunk_id, reset_since>>
    /\ NoTokenStep

\* The gap the request was made from, looked up again under the write lock.
MutAnyGap(cs, prev_token) ==
    IF prev_token # NoToken /\ GapIndexes(cs) # {} THEN Max(GapIndexes(cs)) ELSE 0
prev_gap_chunk_id(cs, prev_token) ==
    IF prev_token # NoToken THEN chunk_identifier(cs, prev_token) ELSE 0

\* paginate_backwards_with_network after the response: the write lock is taken
\* and the gap is looked up again.  The round gives up, or goes on to
\* handle_network_pagination_result with the write guard, and is suspended there
\* in the store's work (collect_valid_and_duplicated_events).
Recheck(t) ==
    /\ pc[t] = "lock"
    /\ write_lock_free
    /\ IF token[t] # NoToken /\ prev_gap_chunk_id(chunks, token[t]) = 0
       THEN GiveUp(t, "soft", FALSE)
       ELSE /\ pc' = [pc EXCEPT ![t] = "merge"]
            /\ gap_chunk_id' =
                   [gap_chunk_id EXCEPT ![t] = prev_gap_chunk_id(chunks, token[t])]
            /\ ret' = NoRet
            /\ UNCHANGED <<status, call, guard, token, before, reset_since>>
    /\ UNCHANGED <<chunks, lazy, waited>>
    /\ NoTokenStep

\* handle_network_pagination_result: the response is merged at the chunk found
\* by the lookup, and the write guard is dropped with the end of the round.
Merge(t, U) ==
    /\ pc[t] = "merge"
    /\ \E r \in Responses(U, call[t].n, chunks) :
           LET m == handle_network_pagination_result(
                        chunks, lazy, r.chunk, r.end, gap_chunk_id[t])
           IN /\ chunks' = m.chunks
              /\ Succeed(t, m.reached_start, m.events, "network",
                         m.all_duplicates, r)
              /\ UNCHANGED <<lazy, waited>>
    /\ NoTokenStep

\* The caller drops the future at one of its suspension points.
Cancel(t) ==
    /\ pc[t] \in InFlight
    /\ GiveUp(t, "cancelled", TRUE)
    /\ UNCHANGED <<chunks, lazy, waited>>
    /\ NoTokenStep

----------------------------------------------------------------------------
\* The other writers of the room's state

\* Another writer writes: the calls of run_backwards_until are not alone any more.
other_writer(c) ==
    [t \in Tasks |-> IF c[t].fn = "until" THEN [c[t] EXCEPT !.alone = FALSE] ELSE c[t]]

\* pagination_batch_token_notifier is notified for a new token g: a call in
\* `notified()` is woken.
notify(q, g) ==
    IF q.pc = "waiting" THEN [q EXCEPT !.notified = TRUE, !.inserted = g] ELSE q

\* The live sync appends a gap, and notifies.
SyncGap(U) ==
    /\ write_lock_free
    /\ Len(chunks) < MaxChunks
    /\ \E g \in U.tokens : chunks' = push_gap(chunks, g) /\ tq' = notify(tq, g)
    /\ tret' = NoTokenRet
    /\ ret' = NoRet
    /\ call' = other_writer(call)
    /\ UNCHANGED <<status, lazy, waited, pc, guard, token, before, gap_chunk_id, reset_since>>

\* The live sync appends an event; if the event is already known, the older
\* copy is removed from where it was.
SyncEvent(U) ==
    /\ write_lock_free
    /\ \E e \in U.events :
           /\ Len(push_events(RemoveEvent(chunks, e), <<e>>)) <= MaxChunks
           /\ chunks' = push_events(RemoveEvent(chunks, e), <<e>>)
           /\ lazy' = RemoveEvent(lazy, e)
    /\ ret' = NoRet
    /\ call' = other_writer(call)
    /\ UNCHANGED <<status, waited, pc, guard, token, before, gap_chunk_id, reset_since>>
    /\ NoTokenStep

\* RoomEventCacheState::reset: the room's timeline is cleared.
Reset ==
    /\ write_lock_free
    /\ chunks' = <<ItemsChunk(<<>>)>>
    /\ lazy' = <<>>
    /\ waited' = FALSE
    /\ ret' = NoRet
    /\ call' = other_writer(call)
    /\ reset_since' = [t \in Tasks |-> reset_since[t] \/ pc[t] \in {"net", "lock"}]
    /\ UNCHANGED <<status, pc, guard, token, before, gap_chunk_id>>
    /\ NoTokenStep

----------------------------------------------------------------------------
\* RoomPagination::get_or_wait_for_token

\* get_latest: the token of the first Gap chunk met from the newest chunk.
MutOldestGap(cs) ==
    IF GapIndexes(cs) = {} THEN NoToken ELSE cs[Min(GapIndexes(cs))].tok
get_latest(cs) ==
    IF GapIndexes(cs) = {} THEN NoToken ELSE cs[Max(GapIndexes(cs))].tok

\* state.events().events().next().is_some()
has_events(cs) == AllEvents(cs) # <<>>

\* The part under the read lock, and the check of wait_time: the token
\* returned, or "Wait" when the call goes on to wait.
MutIgnoresEvents(cs, w, wait_time) ==
    IF get_latest(cs) # NoToken THEN HasMore(get_latest(cs))
    ELSE IF w THEN TokenNone
    ELSE IF ~wait_time.set THEN TokenNone
    ELSE [tag |-> "Wait", token |-> NoToken]
MutIgnoresWaited(cs, w, wait_time) ==
    IF get_latest(cs) # NoToken THEN HasMore(get_latest(cs))
    ELSE IF has_events(cs) THEN HitEnd
    ELSE IF ~wait_time.set THEN TokenNone
    ELSE [tag |-> "Wait", token |-> NoToken]
MutUnsetIsZero(cs, w, wait_time) ==
    IF get_latest(cs) # NoToken THEN HasMore(get_latest(cs))
    ELSE IF has_events(cs) THEN HitEnd
    ELSE IF w THEN TokenNone
    ELSE [tag |-> "Wait", token |-> NoToken]
first_scan(cs, w, wait_time) ==
    IF get_latest(cs) # NoToken THEN HasMore(get_latest(cs))
    ELSE IF has_events(cs) THEN HitEnd
    ELSE IF w THEN TokenNone
    ELSE IF ~wait_time.set THEN TokenNone
    ELSE [tag |-> "Wait", token |-> NoToken]

\* The scan after the wait, under the write lock.
MutRescanGapOnly(cs) ==
    IF get_latest(cs) # NoToken THEN HasMore(get_latest(cs)) ELSE TokenNone
MutRescanOldestGap(cs) ==
    IF MutOldestGap(cs) # NoToken THEN HasMore(MutOldestGap(cs))
    ELSE IF has_events(cs) THEN HitEnd
    ELSE TokenNone
MutRescanGivesUp(cs) ==
    IF has_events(cs) THEN HitEnd ELSE TokenNone
rescan(cs) ==
    IF get_latest(cs) # NoToken THEN HasMore(get_latest(cs))
    ELSE IF has_events(cs) THEN HitEnd
    ELSE TokenNone

\* `timeout(notified(), wait_time)`: is the wait over for caller q, and why?
notified_first(q) == q.notified
MutDeadlineOnly(q) == q.elapsed + 1 >= q.wait_time.d
timed_out(q) == ~q.notified /\ q.elapsed + 1 >= q.wait_time.d

\* get_or_wait_for_token(wait_time) is called: it returns at once, or waits.
TokenCall ==
    /\ tq.pc = "idle"
    /\ read_lock_free
    /\ \E wait_time \in WaitTimes :
           LET r == first_scan(chunks, waited, wait_time)
           IN IF r.tag = "Wait"
              THEN /\ tq' = [NoQuery EXCEPT !.pc = "waiting", !.wait_time = wait_time]
                   /\ tret' = NoTokenRet
              ELSE /\ tq' = NoQuery
                   /\ tret' = [NoTokenRet EXCEPT !.result = r, !.wait_time = wait_time]
    /\ ret' = NoRet
    /\ UNCHANGED <<status, chunks, lazy, waited, pc, call, guard, token, before, gap_chunk_id, reset_since>>

\* Time passes for the waiting call: one tick, short of its deadline.
Tick ==
    /\ tq.pc = "waiting"
    /\ ~tq.notified
    /\ tq.elapsed + 1 < tq.wait_time.d
    /\ tq' = [tq EXCEPT !.elapsed = @ + 1]
    /\ tret' = NoTokenRet
    /\ ret' = NoRet
    /\ UNCHANGED <<status, chunks, lazy, waited, pc, call, guard, token, before, gap_chunk_id, reset_since>>

\* The wait ends because the notifier was notified.
WakeNotified ==
    /\ tq.pc = "waiting"
    /\ notified_first(tq)
    /\ tq' = [tq EXCEPT !.pc = "relock"]
    /\ tret' = NoTokenRet
    /\ ret' = NoRet
    /\ UNCHANGED <<status, chunks, lazy, waited, pc, call, guard, token, before, gap_chunk_id, reset_since>>

\* The wait ends because wait_time has elapsed.
WakeTimeout ==
    /\ tq.pc = "waiting"
    /\ timed_out(tq)
    /\ tq' = [tq EXCEPT !.pc = "relock", !.elapsed = tq.wait_time.d]
    /\ tret' = NoTokenRet
    /\ ret' = NoRet
    /\ UNCHANGED <<status, chunks, lazy, waited, pc, call, guard, token, before, gap_chunk_id, reset_since>>

\* The flag after `state.waited_for_initial_prev_token = true`.
MutFlagForgotten(w) == w
set_waited(w) == TRUE

\* The write lock is taken, the flag is set, the chunks are scanned again.
Rescan ==
    /\ tq.pc = "relock"
    /\ write_lock_free
    /\ waited' = set_waited(waited)
    /\ tret' = [result |-> rescan(chunks), wait_time |-> tq.wait_time,
                awaited |-> TRUE, elapsed |-> tq.elapsed,
                notified |-> tq.notified, inserted |-> tq.inserted]
    /\ tq' = NoQuery
    /\ ret' = NoRet
    /\ UNCHANGED <<status, chunks, lazy, pc, call, guard, token, before, gap_chunk_id, reset_since>>

\* The future of get_or_wait_for_token is dropped while it waits.
TokenCancel ==
    /\ tq.pc \in {"waiting", "relock"}
    /\ tq' = NoQuery
    /\ tret' = NoTokenRet
    /\ ret' = NoRet
    /\ UNCHANGED <<status, chunks, lazy, waited, pc, call, guard, token, before, gap_chunk_id, reset_since>>

TokenSteps ==
    \/ TokenCall
    \/ Tick
    \/ WakeNotified
    \/ WakeTimeout
    \/ Rescan
    \/ TokenCancel

\* The steps of the callers in T, who call the functions in F, with a server
\* and a sync that send U.
Steps(T, F, U) ==
    \/ \E t \in T : Call(t, F)
    \/ \E t \in T : Gate(t)
    \/ \E t \in T : Load(t)
    \/ \E t \in T : LoadError(t)
    \/ \E t \in T : WaitDone(t)
    \/ \E t \in T : Mark(t)
    \/ \E t \in T : RoomGone(t)
    \/ \E t \in T : NetError(t)
    \/ \E t \in T : NetResponse(t)
    \/ \E t \in T : Recheck(t)
    \/ \E t \in T : Merge(t, U)
    \/ \E t \in T : Cancel(t)
    \/ SyncGap(U)
    \/ SyncEvent(U)
    \/ Reset

\* Two callers; the server and the sync send one event id and one token.
Init == InitWith({NewRoom, RestoredRoom(<<>>, <<1>>)})
Next == Steps(Tasks, {"once", "until"}, Narrow)
Spec == Init /\ [][Next]_vars

\* One caller of run_backwards_once; the server and the sync send every event id
\* and token.
MergeInit == InitWith({NewRoom, RestoredRoom(<<1>>, <<2>>)})
MergeNext == Steps({"A"}, {"once"}, Wide)
MergeSpec == MergeInit /\ [][MergeNext]_vars

\* One caller of run_backwards_until; the server and the sync send every event
\* id and one token.
UntilInit == InitWith({NewRoom, RestoredRoom(<<1>>, <<2>>)})
UntilNext == Steps({"A"}, {"until"}, Mid)
UntilSpec == UntilInit /\ [][UntilNext]_vars

\* One caller of get_or_wait_for_token beside one caller of run_backwards_once;
\* the server and the sync send one event id and every token.
OneEvent == [events |-> {1}, tokens |-> Tokens]
TokenInit == InitWith({NewRoom, RestoredRoom(<<>>, <<1>>)})
TokenNext == Steps({"A"}, {"once"}, OneEvent) \/ TokenSteps
TokenSpec == TokenInit /\ [][TokenNext]_vars

\* The client is shutting down: the room handle is gone (weak_room.get() is
\* None), the sync has stopped and nothing resets the room.  One caller of
\* run_backwards_until, scheduled fairly; the room is in one of the states the
\* sync and earlier paginations may have left it in.
ShutdownRooms ==
    {NewRoom, RestoredRoom(<<1>>, <<2>>)}
    \cup {[chunks |-> <<ItemsChunk(<<>>)>> \o gap \o evs, lazy |-> <<>>] :
             gap \in {<<>>} \cup {<<GapChunk(g)>> : g \in Tokens},
             evs \in {<<>>} \cup {<<ItemsChunk(<<e>>)>> : e \in EventIds}}

\* A step of the round of task t that the runtime makes when it polls the task.
RoundStep(t) == Gate(t) \/ Load(t) \/ WaitDone(t) \/ Mark(t) \/ RoomGone(t)

ShutdownInit == InitWith(ShutdownRooms)
ShutdownNext ==
    \/ Call("A", {"until"})
    \/ Gate("A")
    \/ Load("A")
    \/ LoadError("A")
    \/ WaitDone("A")
    \/ Mark("A")
    \/ RoomGone("A")
    \/ Cancel("A")
ShutdownSpec == ShutdownInit /\ [][ShutdownNext]_vars /\ WF_vars(RoundStep("A"))

----------------------------------------------------------------------------
\* The status gate and the guard (checked under Spec)

InFlightTasks == {t \in Tasks : pc[t] \in InFlight}

\* The step is task t's pass through the status gate, made while the status is
\* Paginating.
GateWhilePaginating(t) ==
    pc[t] \in AtGate /\ pc'[t] \notin AtGate /\ status = Paginating

\* C1: at most one round is past the status gate at any time, and a round that
\* comes to the gate while the status is Paginating returns AlreadyBackpaginating
\* to its caller and starts nothing: the status, the chunks, the store and the
\* waited flag are as they were, and the task is not in a round.
C1_SingleFlight ==
    /\ [](Cardinality(InFlightTasks) <= 1)
    /\ [][\A t \in Tasks :
            GateWhilePaginating(t) =>
                /\ ret'.task = t /\ ret'.kind = "busy" /\ ret'.returned
                /\ pc'[t] = "idle"
                /\ ~guard'[t].armed
                /\ UNCHANGED <<status, chunks, lazy, waited>>]_vars

\* A caller was just refused at the gate while another caller's round is in flight.
C1_Witness ==
    /\ ret.kind = "busy"
    /\ InFlightTasks # {}
    /\ ret.task \notin InFlightTasks

\* C2: when a round ends in the concurrency error or in Ok(None) (a soft reset),
\* the status is the one the round found at the gate: Paginating for the refused
\* caller, the same Idle{hit_timeline_start} for a soft reset.
C2_StatusRestored ==
    /\ ret.kind = "busy" => status = ret.before /\ ret.before = Paginating
    /\ ret.kind = "soft" => status = ret.before /\ IsIdle(ret.before)

\* A soft reset of a round that started from Idle{hit_timeline_start: true}.
C2_Witness == ret.kind = "soft" /\ ret.before = Idle(TRUE) /\ ~ret.returned

\* C3: the status is Paginating exactly when one round is between the gate and
\* its end; when no round is in flight the status is an Idle value.
C3_NeverStuck ==
    /\ status = Paginating <=> Cardinality(InFlightTasks) = 1
    /\ InFlightTasks = {} => IsIdle(status)

\* A round has just ended without an outcome and nobody is paginating.
C3_Witness ==
    /\ ret.kind \in {"error", "cancelled", "soft"}
    /\ InFlightTasks = {}
    /\ IsIdle(status)

\* C4: when a round is abandoned at a suspension point, the status is set back
\* to the Idle value the round found at the gate, and the gate admits the next
\* round.
C4_CancelRestores ==
    ret.kind = "cancelled" =>
        /\ ret.at \in InFlight
        /\ IsIdle(ret.before)
        /\ status = ret.before
        /\ gate_admits(status)

\* A round abandoned while it waited for the write lock after its request, having
\* started from Idle{hit_timeline_start: true}.
C4_Witness == ret.kind = "cancelled" /\ ret.at = "lock" /\ status = Idle(TRUE)

\* C5: when a round produces an outcome, the status it leaves is
\* Idle{hit_timeline_start: reached_start of that outcome}.
C5_StatusFromOutcome ==
    ret.kind = "outcome" => status = Idle(ret.reached_start)

\* A network round that reached the start, begun from Idle{hit_timeline_start: false}.
C5_Witness ==
    /\ ret.kind = "outcome" /\ ret.via = "network"
    /\ ret.reached_start /\ ret.before = Idle(FALSE)
    /\ status = Idle(TRUE)

----------------------------------------------------------------------------
\* The merge of a network response (checked under MergeSpec)

\* The event ids known to the room: in memory or in the store.
KnownIds(cs, lz) == Range(AllEvents(cs)) \cup Range(AllEvents(lz))

\* The tokens of the Gap chunks, oldest first.
GapTokens(cs) ==
    LET gaps == SelectSeq(cs, is_gap)
    IN [i \in 1..Len(gaps) |-> gaps[i].tok]

\* The rank of the Gap chunk at index i among the Gap chunks.
GapRank(cs, i) == Cardinality({j \in GapIndexes(cs) : j <= i})

\* The step is a merge of a network response into the chunks.
IsMerge == ret'.kind = "outcome" /\ ret'.via = "network"

\* The gap the merging round is anchored to, 0 when it has none.
Anchor == prev_gap_chunk_id(chunks, token[ret'.task])

\* C6: after a network merge, the reached_start returned is true exactly when
\* the chunks after the merge hold no Gap chunk and their first chunk is the
\* definitive head, whether the response carried a token or not.
C6_ReachedStart ==
    ret.via = "network" =>
        (ret.reached_start <=>
            /\ chunks # <<>>
            /\ GapIndexes(chunks) = {}
            /\ is_definitive_head(lazy))

\* A merge whose response carried no token (the network says: start reached)
\* and whose outcome says the start is not reached.
C6_Witness ==
    /\ ret.via = "network"
    /\ ret.response.end = NoToken
    /\ ~ret.reached_start

\* The other disagreement: the response carried a token, the outcome says the
\* start is reached.
C6_WitnessToken ==
    /\ ret.via = "network"
    /\ ret.response.end # NoToken
    /\ ret.reached_start

\* C7: a merge of a batch that is not empty and whose every event is already
\* known (in memory or in the store) leaves the events of the chunks and their
\* order as they were, removes the gap the round was anchored to and nothing
\* else, stores no new gap even when the response carried a token, and returns
\* no event.
C7_AllDuplicatesMerge ==
    [][(/\ IsMerge
        /\ ret'.response.chunk # <<>>
        /\ Range(ret'.response.chunk) \subseteq KnownIds(chunks, lazy))
       =>
       (/\ ret'.events = <<>>
        /\ AllEvents(chunks') = AllEvents(chunks)
        /\ chunks' = IF Anchor # 0 THEN RemoveAt(chunks, Anchor) ELSE chunks
        /\ NumGaps(chunks') = NumGaps(chunks) - (IF Anchor # 0 THEN 1 ELSE 0)
        /\ lazy' = lazy)]_vars

\* An anchored merge of a batch of known events only, whose response carried a
\* token: the gap is gone and the token is not stored.
C7_Witness ==
    /\ ret.via = "network"
    /\ ret.all_duplicates
    /\ ret.response.chunk # <<>>
    /\ ret.prev_token # NoToken
    /\ ret.response.end # NoToken
    /\ ret.response.end \notin Range(GapTokens(chunks))

\* C8: in a merge, the events known before keep their copies and their order,
\* and no event of the response whose id was known (in memory or in the store)
\* is inserted or returned: what is inserted is what is returned, and its ids
\* were unknown.
C8_KnownCopyKept ==
    [][IsMerge =>
        LET old == Range(AllEvents(chunks))
        IN /\ SelectSeq(AllEvents(chunks'), LAMBDA e : e \in old) = AllEvents(chunks)
           /\ Range(ret'.events) \cap KnownIds(chunks, lazy) = {}
           /\ Range(AllEvents(chunks')) \ old = Range(ret'.events)
           /\ Len(AllEvents(chunks')) = Len(AllEvents(chunks)) + Len(ret'.events)
           /\ Range(ret'.events) \subseteq Range(ret'.response.chunk)
           /\ lazy' = lazy]_vars

\* A merge of a batch with a known event and a new one: the new one is
\* returned, the known one is not.
C8_Witness ==
    /\ ret.via = "network"
    /\ ret.events # <<>>
    /\ Range(ret.response.chunk) \ Range(ret.events) # {}
    /\ Range(ret.events) \subseteq Range(AllEvents(chunks))

\* C9: no two events of the Items chunks have the same id.
C9_NoDuplicateIds ==
    \A i, j \in 1..Len(AllEvents(chunks)) :
        AllEvents(chunks)[i] = AllEvents(chunks)[j] => i = j

\* A round that found no event and no gap, and asked the network without a
\* token; the sync appended events while the request was in flight, and the
\* response held one of them: the merge dropped it.
C9_Witness ==
    /\ ret.via = "network"
    /\ ret.prev_token = NoToken
    /\ \E e \in Range(ret.response.chunk) :
           e \notin Range(ret.events) /\ e \in Range(AllEvents(chunks))
    /\ Len(AllEvents(chunks)) >= 2

\* C10: a merge anchored to a gap removes that gap and stores at most one gap,
\* in its place: the gaps after are the gaps before without the anchor, or with
\* another token in the anchor's rank.  A merge without an anchor stores at most
\* one gap and removes none.
C10_GapBookkeeping ==
    [][IsMerge =>
        LET G == GapTokens(chunks)
            H == GapTokens(chunks')
        IN IF Anchor # 0
           THEN LET k == GapRank(chunks, Anchor)
                IN /\ G[k] = token[ret'.task]
                   /\ \/ H = RemoveAt(G, k)
                      \/ /\ ret'.response.end # NoToken
                         /\ H = [G EXCEPT ![k] = ret'.response.end]
                   /\ NumGaps(chunks') <= NumGaps(chunks)
           ELSE \/ H = G
                \/ /\ ret'.response.end # NoToken
                   /\ \E k \in 1..Len(H) :
                          H[k] = ret'.response.end /\ RemoveAt(H, k) = G]_vars

\* An anchored merge that inserted events and stored the token of the response
\* where the anchor was, with another gap left untouched.
C10_Witness ==
    /\ ret.via = "network"
    /\ ret.prev_token # NoToken
    /\ ret.events # <<>>
    /\ ret.response.end # NoToken
    /\ ret.response.end \in Range(GapTokens(chunks))
    /\ NumGaps(chunks) >= 1

\* A merge without an anchor that stored the token of the response.
C10_WitnessUnanchored ==
    /\ ret.via = "network"
    /\ ret.prev_token = NoToken
    /\ ret.response.end # NoToken
    /\ GapTokens(chunks) = <<ret.response.end>>

----------------------------------------------------------------------------
\* The soft reset (checked under MergeSpec)

\* Task t holds a response to a request made with a token, takes the write
\* lock in this step, and no Gap chunk holds that token any more.
LockWithoutAnchor(t) ==
    /\ pc[t] = "lock" /\ pc'[t] # "lock"
    /\ ret'.kind # "cancelled"
    /\ token[t] # NoToken
    /\ \A i \in GapIndexes(chunks) : chunks[i].tok # token[t]

\* C11: when the response arrives and no Gap chunk holds the token of the
\* request any more, the round ends with Ok(None), not an error; nothing of the
\* response is kept or returned, and the chunks, the store and the waited flag
\* stay as the concurrent writer left them.
C11_SoftReset ==
    [][\A t \in Tasks :
        LockWithoutAnchor(t) =>
            /\ ret'.task = t /\ ret'.kind = "soft"
            /\ ret'.events = <<>> /\ ret'.response = NoResponse
            /\ UNCHANGED <<chunks, lazy, waited>>]_vars

\* A soft reset in a room where the concurrent writer left another gap and events.
C11_Witness ==
    /\ ret.kind = "soft"
    /\ ret.at = "lock"
    /\ ret.prev_token # NoToken
    /\ GapTokens(chunks) # <<>>
    /\ AllEvents(chunks) # <<>>

----------------------------------------------------------------------------
\* The retry after a soft reset (checked under Spec)

\* C12: a round that ends in Ok(None) is not returned to the caller: the call
\* runs another round; and that call does not fail because of what other tasks
\* did in between: its next round is not refused at the status gate.
C12_SoftResetInvisible ==
    [][\A t \in Tasks :
        /\ (ret'.kind = "soft" /\ ret'.task = t) =>
               ~ret'.returned /\ pc'[t] = "restart" /\ call'[t] = call[t]
        /\ (pc[t] = "restart" /\ pc'[t] # "restart") =>
               ~(ret'.task = t /\ ret'.kind = "busy")]_vars

\* The first half alone: Ok(None) is never returned, the call goes on to
\* another round with what it had accumulated.
C12_NoneNotReturned ==
    [][\A t \in Tasks :
        (ret'.kind = "soft" /\ ret'.task = t) =>
            ~ret'.returned /\ pc'[t] = "restart" /\ call'[t] = call[t]]_vars

----------------------------------------------------------------------------
\* run_backwards_until (checked under UntilSpec)

\* The step ends a round of task t, a call of run_backwards_until, with an outcome.
UntilOutcome(t) ==
    /\ call[t].fn = "until"
    /\ ret'.task = t /\ ret'.kind = "outcome"

\* C13: run_backwards_until(n) returns Ok exactly after a round whose outcome
\* has reached_start, or with which the events accumulated are n or more; it
\* returns the events of all its rounds with an outcome, concatenated in the
\* order of the rounds; a round without an outcome adds nothing.
C13_UntilReturns ==
    [][\A t \in Tasks :
        /\ UntilOutcome(t) =>
               LET total == call[t].events \o ret'.events
               IN /\ ret'.returned <=> (ret'.reached_start \/ Len(total) >= call[t].n)
                  /\ ret'.returned => ret'.all = total /\ pc'[t] = "idle"
                  /\ ~ret'.returned => call'[t].events = total /\ pc'[t] = "gate"
        /\ (call[t].fn = "until" /\ ret'.task = t /\ ret'.kind = "soft") =>
               call'[t] = call[t]
        /\ (pc[t] = "idle" /\ pc'[t] # "idle") => call'[t].events = <<>>]_vars

\* A call returns the events of two rounds, the last of which reached the start.
C13_Witness ==
    /\ ret.kind = "outcome" /\ ret.returned
    /\ ret.events # <<>>
    /\ Len(ret.all) > Len(ret.events)
    /\ ret.reached_start

\* A call returns because it has the events it asked for, the start not reached.
C13_WitnessEnough ==
    /\ ret.kind = "outcome" /\ ret.returned
    /\ Len(ret.all) > Len(ret.events)
    /\ ~ret.reached_start

\* The step returns from a call of run_backwards_until of task t.
UntilReturn(t) == UntilOutcome(t) /\ ret'.returned

\* The events of list evs, in the order the chunks cs store them.
StoredOrder(cs, evs) == SelectSeq(AllEvents(cs), LAMBDA e : e \in Range(evs))

\* C14 as stated: the list run_backwards_until returns is newest first across
\* its rounds, and the chunks store the same events oldest first: in the
\* reverse order exactly.
C14_NewestFirst ==
    [][\A t \in Tasks :
        UntilReturn(t) => StoredOrder(chunks', ret'.all) = Reverse(ret'.all)]_vars

\* C14, with its condition: when no other writer has written to the room since
\* the call began, the list run_backwards_until returns is newest first across
\* its rounds, and the chunks store the same events in the reverse order.
C14_NewestFirstAlone ==
    [][\A t \in Tasks :
        (UntilReturn(t) /\ call[t].alone) =>
            StoredOrder(chunks', ret'.all) = Reverse(ret'.all)]_vars

\* A call returns two events of two rounds, and the chunks store them in reverse.
C14_Witness ==
    /\ ret.kind = "outcome" /\ ret.returned
    /\ Len(ret.all) >= 2
    /\ Len(ret.events) < Len(ret.all)
    /\ StoredOrder(chunks, ret.all) = Reverse(ret.all)
    /\ AllEvents(chunks) = Reverse(ret.all)

----------------------------------------------------------------------------
\* get_or_wait_for_token (checked under TokenSpec)

\* The step is a call of get_or_wait_for_token: it returns, or starts to wait.
IsTokenCall == tq.pc = "idle" /\ (tq'.pc = "waiting" \/ tret'.result.tag # "none")

\* The wait_time the call of this step was given.
CallWaitTime == IF tq'.pc = "waiting" THEN tq'.wait_time ELSE tret'.wait_time

\* The step returns from the call without a wait.
ReturnsAtOnce == tq'.pc = "idle" /\ ~tret'.awaited /\ tret'.result.tag # "none"

\* The chunks in memory hold no gap and no event.
EmptyTimeline == GapIndexes(chunks) = {} /\ AllEvents(chunks) = <<>>

\* The step is the scan after the wait.
IsRescan == tq.pc = "relock" /\ tq'.pc = "idle" /\ tret'.awaited

\* C15: when the chunks hold a Gap chunk, get_or_wait_for_token returns
\* HasMore with the token of the newest Gap chunk, without a wait and without a
\* write, whatever wait_time it is given and whatever the waited flag is.
C15_NewestGapFirst ==
    [][(IsTokenCall /\ GapIndexes(chunks) # {}) =>
        /\ ReturnsAtOnce
        /\ tret'.result = HasMore(chunks[Max(GapIndexes(chunks))].tok)
        /\ UNCHANGED <<chunks, lazy, waited>>]_vars

\* The call returned the token of the newest gap while an older gap holds
\* another token and events lie between them; it was given the longest wait.
C15_Witness ==
    /\ tret.result.tag = "HasMore" /\ ~tret.awaited
    /\ tret.wait_time = SomeWait(MaxWait)
    /\ \E i, j, k \in 1..Len(chunks) :
           /\ i < j /\ j < k
           /\ is_gap(chunks[i]) /\ chunks[i].tok # tret.result.token
           /\ chunks[j].items # <<>>
           /\ is_gap(chunks[k]) /\ chunks[k].tok = tret.result.token

\* The same with no wait_time, after a wait has completed.
C15_WitnessUnset ==
    /\ tret.result.tag = "HasMore" /\ ~tret.awaited
    /\ tret.wait_time = NoWaitTime /\ waited
    /\ \E i \in GapIndexes(chunks) : chunks[i].tok # tret.result.token

\* C16: when the chunks hold an event and no Gap chunk, get_or_wait_for_token
\* returns HitEnd at once, without a wait, whatever wait_time it is given.
C16_HitEnd ==
    [][(IsTokenCall /\ AllEvents(chunks) # <<>> /\ GapIndexes(chunks) = {}) =>
        /\ ReturnsAtOnce
        /\ tret'.result = HitEnd
        /\ UNCHANGED <<chunks, lazy, waited>>]_vars

\* HitEnd with a positive wait_time, no wait having completed before.
C16_Witness ==
    /\ tret.result = HitEnd /\ ~tret.awaited
    /\ tret.wait_time = SomeWait(MaxWait)
    /\ ~waited

\* HitEnd with a zero wait_time, and with none.
C16_WitnessZero == tret.result = HitEnd /\ ~tret.awaited /\ tret.wait_time = SomeWait(0)
C16_WitnessUnset == tret.result = HitEnd /\ ~tret.awaited /\ tret.wait_time = NoWaitTime

\* C17: a wait for the token that completes, in get_or_wait_for_token or in a
\* pagination round, sets the waited flag; only a reset clears it; and with the
\* flag set, a call of get_or_wait_for_token on an empty timeline returns None
\* at once, whatever wait_time it is given.
C17_NoRepeatedWait ==
    [][/\ IsRescan => waited'
       /\ (\E t \in Tasks : pc[t] = "mark" /\ pc'[t] = "reload") => waited'
       /\ (waited /\ ~waited') => (chunks' = NewRoom.chunks /\ lazy' = NewRoom.lazy)
       /\ (IsTokenCall /\ waited /\ EmptyTimeline) =>
              /\ ReturnsAtOnce
              /\ tret'.result = TokenNone
              /\ UNCHANGED <<chunks, lazy, waited>>]_vars

\* None at once, with the longest wait_time, after a wait has completed.
C17_Witness ==
    /\ tret.result = TokenNone /\ ~tret.awaited
    /\ tret.wait_time = SomeWait(MaxWait)
    /\ waited /\ EmptyTimeline

\* C18: get_or_wait_for_token with no wait_time never waits and writes nothing;
\* on an empty timeline with the waited flag false it returns None and the flag
\* stays false, so that a call with a wait_time, made in that state, waits.
C18_UnsetNeverWaits ==
    [][/\ (IsTokenCall /\ CallWaitTime = NoWaitTime) =>
              /\ ReturnsAtOnce
              /\ UNCHANGED <<chunks, lazy, waited, status>>
              /\ (EmptyTimeline /\ ~waited) => (tret'.result = TokenNone /\ ~waited')
       /\ (IsTokenCall /\ CallWaitTime.set /\ EmptyTimeline /\ ~waited) =>
              tq'.pc = "waiting" /\ tq'.elapsed = 0]_vars

\* None at once from a call with no wait_time, the flag still false.
C18_Witness ==
    /\ tret.result = TokenNone /\ ~tret.awaited
    /\ tret.wait_time = NoWaitTime
    /\ ~waited /\ EmptyTimeline

\* The call that follows, with the longest wait_time, waits.
C18_WitnessThenWaits ==
    /\ tq.pc = "waiting" /\ tq.wait_time = SomeWait(MaxWait) /\ tq.elapsed = 1
    /\ ~waited

C20_EventsDoNotWake ==
    [][/\ (tq.pc = "waiting" /\ AllEvents(chunks') # AllEvents(chunks)) => tq' = tq
       /\ (tq.pc = "waiting" /\ tq'.pc = "relock" /\ ~tq.notified) =>
              tq'.elapsed = tq.wait_time.d
       /\ (IsRescan /\ ~tq.notified /\ has_events(chunks) /\ GapIndexes(chunks) = {}) =>
              /\ tret'.elapsed = tq.wait_time.d
              /\ tret'.result = HitEnd
              /\ waited']_vars

\* Events came during a wait of MaxWait ticks on an empty timeline; the call
\* returned HitEnd after MaxWait ticks.
C20_Witness ==
    /\ tret.awaited /\ ~tret.notified
    /\ tret.wait_time = SomeWait(MaxWait)
    /\ tret.elapsed = MaxWait
    /\ tret.result = HitEnd
    /\ waited

----------------------------------------------------------------------------
\* A failed request (checked under Spec)

\* The step is the failure of the /messages request of task t.
NetFails(t) == pc[t] = "net" /\ ret'.task = t /\ ret'.kind = "error"

\* The step is a step of the round of task t that is not a merge.
RoundStepWithoutMerge(t) == pc[t] \in InFlight /\ pc'[t] # pc[t] /\ ~IsMerge

----------------------------------------------------------------------------
\* The lock and the two suspensions (checked under TokenSpec)

\* A task is suspended in its /messages request or in `notified()`.
InRequest(t) == pc[t] = "net"
InRoundWait(t) == pc[t] = "wait"
InTokenWait == tq.pc = "waiting"

C22_WitnessWait ==
    /\ InRoundWait("A") /\ InTokenWait
    /\ has_events(chunks)

----------------------------------------------------------------------------
\* The wait of a round (checked under Spec)

\* The step is the loader's answer WaitForInitialPrevToken to task t, whose
\* round has waited and set the flag already.
WaitsAgain(t) == pc[t] = "reload" /\ pc'[t] = "wait"

\* C23: a round that has waited and set the waited flag does not get
\* WaitForInitialPrevToken from the loader again: it does not wait twice.
C23_WaitsOnce == [][\A t \in Tasks : ~WaitsAgain(t)]_vars

\* What holds instead: the round sets the flag after its wait; with the flag
\* set the loader does not answer WaitForInitialPrevToken; the flag is cleared
\* by a reset only, and a round waits again only after one.
C23_WaitsAgainAfterReset ==
    [][\A t \in Tasks :
        /\ (pc[t] = "mark" /\ pc'[t] # "mark" /\ ret'.kind # "cancelled") =>
               waited' /\ pc'[t] = "reload"
        /\ (pc[t] = "reload" /\ waited) => pc'[t] # "wait"
        /\ WaitsAgain(t) => ~waited /\ EmptyTimeline /\ lazy = <<>>
        /\ (waited /\ ~waited') => chunks' = NewRoom.chunks /\ lazy' = NewRoom.lazy]_vars

----------------------------------------------------------------------------
\* The lookup of the gap and the merge (checked under MergeSpec)

\* Task t is between the lookup of its gap and the end of its merge.
Merging(t) == pc[t] = "merge"

\* C24: the write guard taken before the lookup of the request's gap is held
\* until the merge is done: between the two, no other step changes the chunks,
\* the store or the waited flag, so that the chunk found by the lookup is still
\* the Gap chunk with the request's token when the merge removes or replaces
\* it; the guard is given up with the end of the round.
C24_LookupAndMergeAtomic ==
    [][\A t \in Tasks :
        /\ (pc[t] = "lock" /\ Merging(t)') =>
               /\ gap_chunk_id'[t] = prev_gap_chunk_id(chunks, token[t])
               /\ token[t] # NoToken => gap_chunk_id'[t] # 0
        /\ Merging(t)' => ~write_lock_free'
        /\ (Merging(t) /\ Merging(t)') =>
               UNCHANGED <<chunks, lazy, waited, gap_chunk_id, token>>
        /\ (Merging(t) /\ ~Merging(t)') =>
               /\ ret'.task = t /\ pc'[t] \notin InFlight
               /\ write_lock_free'
               /\ (IsMerge /\ token[t] # NoToken) =>
                      /\ gap_chunk_id[t] \in GapIndexes(chunks)
                      /\ chunks[gap_chunk_id[t]].tok = token[t]
                      /\ chunks' # chunks
                      /\ SubSeq(chunks', 1, gap_chunk_id[t] - 1)
                             = SubSeq(chunks, 1, gap_chunk_id[t] - 1)]_vars

\* A merge at the gap of the request has just been made, in a room with another
\* gap and events: the sync had written while the request was in flight.
C24_Witness ==
    /\ ret.via = "network" /\ ret.at = "merge"
    /\ ret.prev_token # NoToken
    /\ ret.events # <<>>
    /\ NumGaps(chunks) >= 1
    /\ Len(AllEvents(chunks)) > Len(ret.events)

----------------------------------------------------------------------------
\* Where the merge puts the events and the new gap (checked under MergeSpec)

\* The Gap chunk of the response's token, if it has one.
NewGap(end) == IF end # NoToken THEN <<GapChunk(end)>> ELSE <<>>

\* The chunks cs with chunk i replaced by the chunks `by`.
Splice(cs, i, by) == SubSeq(cs, 1, i - 1) \o by \o SubSeq(cs, i + 1, Len(cs))

\* C25: a merge that keeps at least one event of the response.  Anchored to
\* the Gap chunk g: the chunks before g and after g stay as they are and where
\* they are, and in g's place are the new Gap chunk (when the response has a
\* token) and then one Items chunk with the kept events, oldest first.  Without
\* an anchor, when events are known: the kept events, oldest first, are put in
\* front of the earliest known event, in its chunk, and the new Gap chunk right
\* before that chunk; when no event is known the new Gap chunk is right before
\* the chunk of the kept events.
C25_SplicePosition ==
    [][\A t \in Tasks :
        (IsMerge /\ ret'.task = t /\ ret'.events # <<>>) =>
            LET g == gap_chunk_id[t]
                p == first_event_pos(chunks)
                evs == Reverse(ret'.events)
                gap == NewGap(ret'.response.end)
            IN /\ token[t] # NoToken =>
                      /\ g # 0
                      /\ chunks' = Splice(chunks, g, gap \o <<ItemsChunk(evs)>>)
               /\ (token[t] = NoToken /\ p # 0) =>
                      /\ g = 0
                      /\ chunks' =
                            Splice(chunks, p,
                                   gap \o <<[chunks[p] EXCEPT !.items = evs \o @]>>)
                      /\ AllEvents(chunks') = evs \o AllEvents(chunks)
               /\ (token[t] = NoToken /\ p = 0) =>
                      /\ AllEvents(chunks') = evs
                      /\ LET q == first_event_pos(chunks')
                         IN /\ SubSeq(chunks', q + 1, Len(chunks')) = <<>>
                            /\ gap # <<>> => q > 1 /\ chunks'[q - 1] = gap[1]
                            /\ gap = <<>> => NumGaps(chunks') = NumGaps(chunks)]_vars

\* An anchored merge of two events and a token: the new gap and the two events,
\* oldest first, are where the gap was, after an older chunk.
C25_Witness ==
    /\ ret.via = "network" /\ ret.prev_token # NoToken
    /\ Len(ret.events) = 2
    /\ ret.events[1] # ret.events[2]
    /\ ret.response.end # NoToken
    /\ \E k \in 2..(Len(chunks) - 1) :
           /\ chunks[k] = GapChunk(ret.response.end)
           /\ chunks[k + 1] = ItemsChunk(Reverse(ret.events))

\* An anchored merge between an older chunk and a newer chunk with an event.
C25_WitnessBetween ==
    /\ ret.via = "network" /\ ret.prev_token # NoToken
    /\ ret.events # <<>>
    /\ \E k \in 2..(Len(chunks) - 1) :
           /\ chunks[k] = ItemsChunk(Reverse(ret.events))
           /\ chunks[k + 1].items # <<>>

\* A merge without an anchor, in front of a known event, with a token.
C25_WitnessUnanchored ==
    /\ ret.via = "network" /\ ret.prev_token = NoToken
    /\ ret.events # <<>>
    /\ ret.response.end # NoToken
    /\ Len(AllEvents(chunks)) > Len(ret.events)

----------------------------------------------------------------------------
\* The store first, then the network (checked under Spec)

\* The step sends the /messages request of task t.
SendsRequest(t) == pc[t] # "net" /\ pc'[t] = "net"

\* Task t has sent the request of its round.
RequestSent(t) == pc[t] \in {"net", "lock", "merge"}

\* The step ends the round of task t with the loader's answer.
LoaderOutcome(t) == pc[t] \in AtLoad /\ ret'.task = t /\ ret'.kind = "outcome"

\* C26: a round sends a request only from the loader's answer Gap, with the
\* prev_token of that answer, and the response holds at most batch_size events;
\* a round that has sent its request sends no other: it stays with that request
\* until it ends.  A round that ends with the loader's answer has sent no
\* request; for StartOfTimeline its outcome is {reached_start: true, events: []}
\* and the chunks and the store are as they were.
C26_StorageFirst ==
    [][\A t \in Tasks :
        LET l == load_more_events_backwards(chunks, lazy, waited)
        IN /\ SendsRequest(t) =>
                  /\ pc[t] \in AtLoad
                  /\ l.outcome = "Gap"
                  /\ token'[t] = l.prev_token
                  /\ call'[t] = call[t]
           /\ RequestSent(t) => (RequestSent(t)' \/ ret'.task = t)
           /\ (IsMerge /\ ret'.task = t) =>
                  /\ RequestSent(t)
                  /\ Len(ret'.response.chunk) <= call[t].n
           /\ LoaderOutcome(t) =>
                  /\ l.outcome \in {"StartOfTimeline", "Events"}
                  /\ ret'.via \in {"start", "local"}
                  /\ ret'.response = NoResponse
                  /\ l.outcome = "StartOfTimeline" =>
                         /\ ret'.reached_start /\ ret'.events = <<>>
                         /\ UNCHANGED <<chunks, lazy, waited>>]_vars

\* A round has just ended at the start of the timeline, without a request, in
\* a room that holds events.
C26_Witness ==
    /\ ret.via = "start" /\ ret.at \in AtLoad
    /\ ret.reached_start /\ ret.events = <<>>
    /\ has_events(chunks)
    /\ status = Idle(TRUE)

\* A request made with the token of a gap is in flight.
C26_WitnessRequest ==
    \E t \in Tasks : pc[t] = "net" /\ token[t] \in Range(GapTokens(chunks))

----------------------------------------------------------------------------
\* A reset while the request is in flight (checked under MergeSpec)

\* The step is the merge of a response whose request task t sent before the
\* room was reset.
MergeAfterReset(t) == IsMerge /\ ret'.task = t /\ reset_since[t]

\* C27: when the room is reset while the request of a round is in flight, the
\* events and the token of its response are not put into the chunks, whatever
\* the sync has appended since the reset.
C27_NoMergeAfterReset ==
    [][\A t \in Tasks :
        MergeAfterReset(t) =>
            /\ AllEvents(chunks') = AllEvents(chunks)
            /\ Range(GapTokens(chunks')) \subseteq Range(GapTokens(chunks))]_vars

\* What holds instead: a response fetched before a reset is merged only when
\* its request was made without a token, or when a Gap chunk holds the token of
\* the request again: the sync has appended one since the reset.
C27_MergedOnlyWithoutTokenOrSameToken ==
    [][\A t \in Tasks :
        MergeAfterReset(t) =>
            \/ token[t] = NoToken
            \/ /\ gap_chunk_id[t] \in GapIndexes(chunks)
               /\ chunks[gap_chunk_id[t]].tok = token[t]]_vars

----------------------------------------------------------------------------
\* The end of run_backwards_until (checked under ShutdownSpec)

\* C28: every call of run_backwards_until returns in the end, also when the
\* room handle is gone and the network step answers with an empty outcome
\* whose reached_start is false.
C28_UntilTerminates ==
    \A t \in Tasks : (call[t].fn = "until") ~> (pc[t] = "idle")

\* What the rounds of such a call do: a round that finds the room handle gone
\* ends with an outcome that adds no event and has not reached the start, and
\* the call goes to another round with what it had.
C28_GoneRoundChangesNothing ==
    [][\A t \in Tasks :
        (ret'.task = t /\ ret'.via = "gone") =>
            /\ ret'.kind = "outcome" /\ ~ret'.reached_start /\ ret'.events = <<>>
            /\ ~ret'.returned
            /\ pc'[t] = "gate"
            /\ call'[t] = call[t]
            /\ UNCHANGED <<chunks, lazy, waited>>]_vars

----------------------------------------------------------------------------
\* The scan after the wait (checked under TokenSpec)

\* C29: what get_or_wait_for_token returns after its wait is read from the
\* chunks as they are at the scan under the write lock, whether the wait ended
\* by the notifier or by the timeout: HasMore with the token of the newest Gap
\* chunk when there is one, else HitEnd when there is an event, else None; the
\* scan writes nothing but the waited flag, which is true after it.
C29_RescanDecides ==
    [][IsRescan =>
        /\ tret'.result =
               IF GapIndexes(chunks) # {}
               THEN HasMore(chunks[Max(GapIndexes(chunks))].tok)
               ELSE IF AllEvents(chunks) # <<>> THEN HitEnd ELSE TokenNone
        /\ tret'.notified = tq.notified
        /\ waited'
        /\ UNCHANGED <<chunks, lazy, status>>]_vars

\* The wait ended by the timeout, and the call returned the token of the newest
\* of two gaps: the sync appended them after the timeout, before the scan.
C29_Witness ==
    /\ tret.awaited /\ ~tret.notified
    /\ tret.elapsed = tret.wait_time.d
    /\ tret.result.tag = "HasMore"
    /\ waited
    /\ \E i \in GapIndexes(chunks) : chunks[i].tok # tret.result.token

\* The wait ended by the notifier, and the call returned None: the room was
\* reset before the scan.
C29_WitnessNotifiedNone ==
    /\ tret.awaited /\ tret.notified
    /\ tret.result = TokenNone
    /\ waited /\ EmptyTimeline

\* The wait ended by the notifier, and the call returned HitEnd.
C29_WitnessNotifiedHitEnd ==
    /\ tret.awaited /\ tret.notified
    /\ tret.result = HitEnd
    /\ waited

====
